---- MODULE Spec2Model ----
(***************************************************************************)
(* Model of providers/criteo.go: the Criteo identity provider of           *)
(* oauth2_proxy.  Each process is one request of the gateway working on    *)
(* its own session; the provider configuration is shared.  A handler is    *)
(* split only where the code blocks on a remote round-trip.                *)
(***************************************************************************)
EXTENDS Integers, Sequences, FiniteSets, TLC

VARIABLES
    now,         \* the wall clock (time.Now()), in ticks
    provider,    \* CriteoProvider after Configure: the URLs and the allow-list
    membership,  \* the directory service: group names of each entry
    session,     \* session[p]: the sessions.SessionState of request p
    pc,          \* pc[p]: where request p is blocked, or "idle"
    op,          \* op[p]: the operation p is in (or was last in)
    ctx,         \* ctx[p]: the caller-supplied context of that operation
    url,         \* url[p]: the local url.Path of getExtendedProfile
    profile,     \* profile[p]: the local criteoProfile of getExtendedProfile
    inflight,    \* inflight[p]: the HTTP requests awaiting a response
    sent,        \* sent[p]: the requests issued by the operation, in order
    recv,        \* recv[p]: the responses to them, in order
    checked,     \* checked[p]: what userInGroup returned to the operation
    ret,         \* ret[p]: what the operation returned
    pre,         \* pre[p]: the session as it was when the operation was called
    served,      \* served[p]: the groups the directory has read for p's request
    removedAt,   \* when the administrator took the user out of every group
    hist         \* hist[p]: beat: a heartbeat set the expiry of p's session;
                 \*          late: the operation was called after the removal

vars == <<now, provider, membership, session, pc, op, ctx, url, profile, inflight,
          sent, recv, checked, ret, pre, served, removedAt, hist>>

----------------------------------------------------------------------------
(* Bounds *)

TicksPerSecond == 2      \* clock ticks in one second
MaxTime == 3             \* the clock stops here

Procs == {"r1", "r2"}    \* the requests being served
Running == {"r1"}        \* the ones that run one at a time in Spec

----------------------------------------------------------------------------
(* Values *)

Nil == "nil"                      \* a nil pointer / nil error

AccessTokens  == {"", "at"}
RefreshTokens == {"", "rt"}
Emails        == {"", "a@criteo"}
DNs           == {"u1", "u2"}      \* entries the directory knows
UserKeys      == {"", "u1"}        \* user keys of the sessions
Mutable       == {"u1"}            \* entries whose groups change while we run

\* a *time.Time: nil, or a pointer to a time
NilTime == [set |-> FALSE, at |-> 0]
At(t)   == [set |-> TRUE, at |-> t]
InitExpiries  == {NilTime, At(0), At(1)}

MemberLists == {<<>>, <<"eng", "ops">>, <<"Ops">>}
AllowLists  == {<<>>, <<"ops">>, <<"admin", "ops">>}

ErrMissingToken == "missing access token"
ErrNoEmail      == "can't find email"
ErrNoLongerInGroup == "is no longer in the group(s)"
ErrTransport    == "transport error"
ErrDecode       == "decode error"
ErrCanceled     == "context canceled"

RemoteErrors == {ErrTransport, ErrDecode}

NoProfile == [Cn |-> "", Dn |-> "", Groups |-> <<>>]

\* the decoded body of a response: a tokenInfo, a profileResponse or groups
NoBody == [Email |-> "", User |-> "", Cn |-> "", Dn |-> "", Groups |-> <<>>]

\* the directory has not read the groups yet
NoReply == [read |-> FALSE, Groups |-> <<>>]

NoRet == [err |-> "running", refreshed |-> FALSE, bool |-> FALSE, str |-> ""]

Range(s) == {s[i] : i \in DOMAIN s}

----------------------------------------------------------------------------
(* Pure helpers *)

\* getCriteoHeader: the Accept and Authorization headers of a request
getCriteoHeader(accessToken) ==
    [Accept |-> "application/json", Authorization |-> <<"Bearer ", accessToken>>]

NoHeader == [Accept |-> "", Authorization |-> <<>>]

\* a GET request as built by http.NewRequest / http.NewRequestWithContext
Request(endpoint, path, header, withCtx) ==
    [endpoint |-> endpoint, path |-> path, header |-> header, withCtx |-> withCtx]

\* mutation: an expiry equal to the current time counts as still to come
NotBefore(t, u) == t >= u

\* time.Time.After
After(t, u) == t > u

\* time.Time.Truncate(time.Second)
Truncate(t) == t - (t % TicksPerSecond)

\* mutation: the second is not added
NewExpiryUnadded(t) == Truncate(t)

\* mutation: the truncation is forgotten
NewExpiryUntruncated(t) == t + TicksPerSecond

\* time.Now().Add(time.Second).Truncate(time.Second)
NewExpiry(t) == Truncate(t + TicksPerSecond)

\* mutation: the refresh token is not looked at
RefreshSkippedByExpiryOnly(absent, s, t) ==
    \/ absent
    \/ (s.ExpiresOn # NilTime /\ After(s.ExpiresOn.at, t))

\* the guard of RefreshSessionIfNeeded: TRUE when the call does nothing
RefreshSkipped(absent, s, t) ==
    \/ absent
    \/ (s.ExpiresOn # NilTime /\ After(s.ExpiresOn.at, t))
    \/ s.RefreshToken = ""

\* mutation: only the first configured group is compared
InGroupsFirstOnly(ug, gs) == gs # <<>> /\ ug = Head(gs)

\* the inner loop of userInGroup: is ug one of the configured groups
RECURSIVE InGroups(_, _)
InGroups(ug, gs) ==
    IF gs = <<>> THEN FALSE
    ELSE IF ug = Head(gs) THEN TRUE
    ELSE InGroups(ug, Tail(gs))

\* the outer loop of userInGroup over profile.groups.Groups
RECURSIVE MatchGroups(_, _)
MatchGroups(ugs, gs) ==
    IF ugs = <<>> THEN FALSE
    ELSE IF InGroups(Head(ugs), gs) THEN TRUE
    ELSE MatchGroups(Tail(ugs), gs)

----------------------------------------------------------------------------
(* Initial state: the provider after NewCriteoProvider and Configure, and   *)
(* the sessions as the gateway hands them over.                             *)

Configure(groups) ==
    [IdentityURL |-> <<"/user/">>,
     ProfileURL  |-> <<"/auth/oauth2/tokeninfo">>,
     ValidateURL |-> <<"/auth/oauth2/tokeninfo">>,
     groups      |-> groups]

Sessions ==
    [AccessToken : AccessTokens, RefreshToken : RefreshTokens,
     Email : Emails, User : UserKeys, ExpiresOn : InitExpiries]

\* the session of a request that never runs
ParkedSession ==
    [AccessToken |-> "", RefreshToken |-> "", Email |-> "", User |-> "",
     ExpiresOn |-> NilTime]

\* the state after construction, with allow-list g, directory m, sessions ss
InitWith(g, m, ss) ==
    /\ now = 0
    /\ provider = Configure(g)
    /\ membership = m
    /\ session = ss
    /\ pc = [p \in Procs |-> "idle"]
    /\ op = [p \in Procs |-> [name |-> "none", absent |-> FALSE]]
    /\ ctx = [p \in Procs |-> "active"]
    /\ url = [p \in Procs |-> <<>>]
    /\ profile = [p \in Procs |-> NoProfile]
    /\ inflight = [p \in Procs |-> {}]
    /\ sent = [p \in Procs |-> <<>>]
    /\ recv = [p \in Procs |-> <<>>]
    /\ checked = [p \in Procs |-> "unchecked"]
    /\ ret = [p \in Procs |-> NoRet]
    /\ pre = ss
    /\ served = [p \in Procs |-> NoReply]
    /\ removedAt = NilTime
    /\ hist = [p \in Procs |-> [beat |-> FALSE, late |-> FALSE]]

Init ==
    \E g \in AllowLists, m \in [DNs -> MemberLists], ss \in [Procs -> Sessions] :
        /\ \A dn \in DNs \ Mutable : m[dn] = <<"eng", "ops">>
        /\ \A p \in Procs \ Running : ss[p] = ParkedSession
        /\ InitWith(g, m, ss)

----------------------------------------------------------------------------
(* Calls, returns and round-trips *)

Result(err, refreshed, bool, str) ==
    [err |-> err, refreshed |-> refreshed, bool |-> bool, str |-> str]

\* p calls operation name on its session (absent: the session passed is nil)
Enter(p, name, absent) ==
    /\ pc[p] = "idle"
    /\ op' = [op EXCEPT ![p] = [name |-> name, absent |-> absent]]
    /\ pre' = [pre EXCEPT ![p] = session[p]]
    /\ ctx' = [ctx EXCEPT ![p] = "active"]
    /\ recv' = [recv EXCEPT ![p] = <<>>]
    /\ hist' = [hist EXCEPT ![p].late = (removedAt # NilTime)]

\* the operation of p returns r, having issued the requests reqs
Done(p, r, reqs) ==
    /\ pc' = [pc EXCEPT ![p] = "idle"]
    /\ ret' = [ret EXCEPT ![p] = r]
    /\ inflight' = [inflight EXCEPT ![p] = {}]
    /\ sent' = [sent EXCEPT ![p] = reqs]
    /\ url' = [url EXCEPT ![p] = <<>>]
    /\ profile' = [profile EXCEPT ![p] = NoProfile]
    /\ served' = [served EXCEPT ![p] = NoReply]

\* p issues request r after the requests reqs and blocks at label until the
\* response comes, its locals being path and prof
Wait(p, label, r, reqs, path, prof) ==
    /\ pc' = [pc EXCEPT ![p] = label]
    /\ ret' = [ret EXCEPT ![p] = NoRet]
    /\ inflight' = [inflight EXCEPT ![p] = {r}]
    /\ sent' = [sent EXCEPT ![p] = Append(reqs, r)]
    /\ url' = [url EXCEPT ![p] = path]
    /\ profile' = [profile EXCEPT ![p] = prof]
    /\ served' = [served EXCEPT ![p] = NoReply]

\* requests.RequestJSON on request r under a context in state c: the errors
\* it can return, Nil standing for a decoded response
Outcomes(r, c) ==
    IF r.withCtx /\ c = "cancelled" THEN {ErrCanceled} ELSE RemoteErrors \cup {Nil}

\* p receives the response to its pending request: error err, or body
Receive(p, err, body) ==
    recv' = [recv EXCEPT ![p] = Append(@, [err |-> err, body |-> body])]

\* the request p is blocked on
Pending(p) == CHOOSE r \in inflight[p] : TRUE

----------------------------------------------------------------------------
(* GetProfile, GetEmailAddress, GetUserName *)

\* mutation: the fast path is lost
ProfileCachedNever(s) == FALSE

\* mutation: the fast path also wants an access token
ProfileCachedWithToken(s) == s.AccessToken # "" /\ s.User # "" /\ s.Email # ""

\* GetProfile's fast path: the identity is already resolved
ProfileCached(s) == s.User # "" /\ s.Email # ""

\* mutation: the guard is gone
TokenNeverMissing(hasSession, s) == FALSE

\* the guard of requestJSONWithContext and requestJSON
TokenMissing(hasSession, s) == hasSession /\ s.AccessToken = ""

\* mutation: the user key is tested in place of the email
ProfileErrorByUser(s) == IF s.User = "" THEN ErrNoEmail ELSE Nil

\* GetProfile's verdict once the introspection response is stored
ProfileError(s) == IF s.Email = "" THEN ErrNoEmail ELSE Nil

\* mutation: only the email is stored
StoreProfileEmailOnly(s, info) == [s EXCEPT !.Email = info.Email]

\* the session after GetProfile stored the decoded tokenInfo
StoreProfile(s, info) == [s EXCEPT !.Email = info.Email, !.User = info.User]

\* the value GetEmailAddress / GetUserName return beside the error
ProfileValue(name, s) ==
    CASE name = "GetEmailAddress" -> s.Email
      [] name = "GetUserName" -> s.User
      [] OTHER -> ""

ProfileOps == {"GetProfile", "GetEmailAddress", "GetUserName"}

TokenInfos == [Email : Emails, User : UserKeys]

CallGetProfile(p, name) ==
    /\ Enter(p, name, FALSE)
    /\ LET s == session[p] IN
       IF ProfileCached(s)
       THEN Done(p, Result(Nil, FALSE, FALSE, ProfileValue(name, s)), <<>>)
       ELSE IF TokenMissing(TRUE, s)
       THEN Done(p, Result(ErrMissingToken, FALSE, FALSE, ProfileValue(name, s)), <<>>)
       ELSE Wait(p, "introspect",
                 Request("introspect", provider.ProfileURL,
                         getCriteoHeader(s.AccessToken), TRUE), <<>>, <<>>, NoProfile)
    /\ checked' = [checked EXCEPT ![p] = "unchecked"]
    /\ UNCHANGED <<now, provider, membership, removedAt, session>>

\* mutation: a failed introspection call is tried once more
IntrospectResponseRetry(p) ==
    /\ pc[p] = "introspect"
    /\ \E e \in Outcomes(Pending(p), ctx[p]) :
          /\ Receive(p, e, NoBody)
          /\ IF e # Nil /\ Len(sent[p]) < 2
             THEN Wait(p, "introspect", Pending(p), sent[p], <<>>, NoProfile)
             ELSE Done(p, Result(e, FALSE, FALSE, ProfileValue(op[p].name, session[p])),
                       sent[p])
    /\ UNCHANGED <<now, provider, membership, removedAt, session, op, ctx, checked, pre,
                   hist>>

IntrospectResponse(p) ==
    /\ pc[p] = "introspect"
    /\ \E e \in Outcomes(Pending(p), ctx[p]) :
          IF e # Nil
          THEN /\ Done(p, Result(e, FALSE, FALSE, ProfileValue(op[p].name, session[p])),
                       sent[p])
               /\ Receive(p, e, NoBody)
               /\ UNCHANGED session
          ELSE \E info \in TokenInfos :
                  LET s == StoreProfile(session[p], info) IN
                  /\ session' = [session EXCEPT ![p] = s]
                  /\ Receive(p, Nil, [NoBody EXCEPT !.Email = info.Email,
                                                    !.User = info.User])
                  /\ Done(p, Result(ProfileError(s), FALSE, FALSE,
                                    ProfileValue(op[p].name, s)), sent[p])
    /\ UNCHANGED <<now, provider, membership, removedAt, op, ctx, checked, pre, hist>>

----------------------------------------------------------------------------
(* ValidateSessionState *)

CallValidateSessionState(p) ==
    /\ Enter(p, "ValidateSessionState", FALSE)
    /\ Wait(p, "validate",
            Request("validate", provider.ValidateURL,
                    getCriteoHeader(session[p].AccessToken), TRUE), <<>>, <<>>, NoProfile)
    /\ checked' = [checked EXCEPT ![p] = "unchecked"]
    /\ UNCHANGED <<now, provider, membership, removedAt, session>>

ValidateResponse(p) ==
    /\ pc[p] = "validate"
    /\ \E e \in Outcomes(Pending(p), ctx[p]) :
          /\ Done(p, Result(Nil, FALSE, e = Nil, ""), sent[p])
          /\ Receive(p, e, NoBody)
    /\ UNCHANGED <<now, provider, membership, removedAt, session, op, ctx, checked, pre,
                   hist>>

----------------------------------------------------------------------------
(* ValidateGroup, userInGroup, getExtendedProfile, RefreshSessionIfNeeded *)

\* url.Path += dn, and url.Path += "/groups"
PathAdd(path, part) == Append(path, part)

\* the directory entry a path addresses
PathKey(path) == IF Len(path) >= 2 THEN path[2] ELSE ""

\* the directory answers only for the entries it has
DirectoryOutcomes(r, c) ==
    IF PathKey(r.path) \in DNs THEN Outcomes(r, c) ELSE Outcomes(r, c) \ {Nil}

\* mutation: a directory failure lets the user through
AllowedOnError(err) == TRUE

\* userInGroup when getExtendedProfile failed
DeniedOnError(err) == FALSE

\* what RefreshSessionIfNeeded returns after the group check
RefreshResult(inGroup) ==
    IF ~inGroup THEN Result(ErrNoLongerInGroup, FALSE, FALSE, "")
    ELSE Result(Nil, FALSE, FALSE, "")

\* mutation: the expiry is extended before the verdict is looked at
RefreshSessionAlways(inGroup, s, t) == [s EXCEPT !.ExpiresOn = At(NewExpiry(t))]

\* the session RefreshSessionIfNeeded leaves after the group check, at time t
RefreshSession(inGroup, s, t) ==
    IF ~inGroup THEN s ELSE [s EXCEPT !.ExpiresOn = At(NewExpiry(t))]

\* the group check of p is over with verdict inGroup: ValidateGroup returns
\* it, RefreshSessionIfNeeded goes on from its line 202
GroupChecked(p, inGroup) ==
    /\ checked' = [checked EXCEPT ![p] = IF inGroup THEN "in" ELSE "out"]
    /\ hist' = [hist EXCEPT ![p].beat =
                   @ \/ (op[p].name = "RefreshSessionIfNeeded" /\ inGroup)]
    /\ IF op[p].name = "ValidateGroup"
       THEN /\ Done(p, Result(Nil, FALSE, inGroup, ""), sent[p])
            /\ UNCHANGED session
       ELSE /\ Done(p, RefreshResult(inGroup), sent[p])
            /\ session' = [session EXCEPT ![p] =
                              RefreshSession(inGroup, session[p], now)]

\* mutation: url is the provider's IdentityURL itself, not a copy of it
getExtendedProfileShared(p, dn) ==
    LET path == PathAdd(provider.IdentityURL, dn) IN
    /\ Wait(p, "entry", Request("entry", path, NoHeader, FALSE), <<>>, path, NoProfile)
    /\ provider' = [provider EXCEPT !.IdentityURL = path]

\* mutation: the two directory requests are issued together
getExtendedProfileParallel(p, dn) ==
    LET path == PathAdd(provider.IdentityURL, dn)
        entry == Request("entry", path, NoHeader, FALSE)
        groups == Request("groups", PathAdd(path, "/groups"), NoHeader, FALSE)
    IN
    /\ pc' = [pc EXCEPT ![p] = "entry"]
    /\ ret' = [ret EXCEPT ![p] = NoRet]
    /\ inflight' = [inflight EXCEPT ![p] = {entry, groups}]
    /\ sent' = [sent EXCEPT ![p] = <<entry, groups>>]
    /\ url' = [url EXCEPT ![p] = path]
    /\ profile' = [profile EXCEPT ![p] = NoProfile]
    /\ served' = [served EXCEPT ![p] = NoReply]
    /\ UNCHANGED provider

\* getExtendedProfile up to its first round-trip
getExtendedProfile(p, dn) ==
    LET path == PathAdd(provider.IdentityURL, dn) IN
    /\ Wait(p, "entry", Request("entry", path, NoHeader, FALSE), <<>>, path, NoProfile)
    /\ UNCHANGED provider

CallValidateGroup(p) ==
    /\ Enter(p, "ValidateGroup", FALSE)
    /\ getExtendedProfile(p, session[p].User)
    /\ checked' = [checked EXCEPT ![p] = "unchecked"]
    /\ UNCHANGED <<now, membership, removedAt, session>>

CallRefreshSessionIfNeeded(p, absent) ==
    /\ Enter(p, "RefreshSessionIfNeeded", absent)
    /\ IF RefreshSkipped(absent, session[p], now)
       THEN /\ Done(p, Result(Nil, FALSE, FALSE, ""), <<>>)
            /\ UNCHANGED provider
       ELSE getExtendedProfile(p, session[p].User)
    /\ checked' = [checked EXCEPT ![p] = "unchecked"]
    /\ UNCHANGED <<now, membership, removedAt, session>>

Entries == [Cn : {"cn"}, Dn : DNs]

EntryResponse(p) ==
    /\ pc[p] = "entry"
    /\ \E e \in DirectoryOutcomes(Pending(p), ctx[p]) :
          IF e # Nil
          THEN /\ GroupChecked(p, DeniedOnError(e))
               /\ Receive(p, e, NoBody)
          ELSE \E entry \in Entries :
                  LET path == PathAdd(url[p], "/groups") IN
                  /\ Receive(p, Nil, [NoBody EXCEPT !.Cn = entry.Cn, !.Dn = entry.Dn])
                  /\ UNCHANGED <<checked, hist>>
                  /\ Wait(p, "groups", Request("groups", path, NoHeader, FALSE), sent[p],
                          path, [profile[p] EXCEPT !.Cn = entry.Cn, !.Dn = entry.Dn])
                  /\ UNCHANGED session
    /\ UNCHANGED <<now, provider, membership, removedAt, op, ctx, pre>>

\* the directory reads the groups of the entry p's groups request addresses;
\* the response reaches p later
DirectoryServe(p) ==
    /\ pc[p] = "groups"
    /\ ~served[p].read
    /\ PathKey(Pending(p).path) \in DNs
    /\ served' = [served EXCEPT ![p] =
                     [read |-> TRUE, Groups |-> membership[PathKey(Pending(p).path)]]]
    /\ UNCHANGED <<now, provider, membership, removedAt, session, pc, op, ctx, url,
                   profile, inflight, sent, recv, checked, ret, pre, hist>>

GroupsResponse(p) ==
    /\ pc[p] = "groups"
    /\ \E e \in DirectoryOutcomes(Pending(p), ctx[p]) :
          IF e # Nil
          THEN /\ GroupChecked(p, DeniedOnError(e))
               /\ Receive(p, e, NoBody)
          ELSE LET groups == served[p].Groups IN
               /\ served[p].read
               /\ Receive(p, Nil, [NoBody EXCEPT !.Groups = groups])
               /\ GroupChecked(p, MatchGroups(groups, provider.groups))
    /\ UNCHANGED <<now, provider, membership, removedAt, op, ctx, pre>>

----------------------------------------------------------------------------
(* The environment: the clock, the caller's context, the directory *)

Tick ==
    /\ now < MaxTime
    /\ now' = now + 1
    /\ UNCHANGED <<provider, membership, session, pc, op, ctx, url, profile, inflight,
                   sent, recv, checked, ret, pre, served, removedAt, hist>>

\* the caller cancels the context it passed to the operation p is blocked in
Cancel(p) ==
    /\ pc[p] # "idle"
    /\ op[p].name # "ValidateGroup"
    /\ ctx[p] = "active"
    /\ ctx' = [ctx EXCEPT ![p] = "cancelled"]
    /\ UNCHANGED <<now, provider, membership, session, pc, op, url, profile, inflight,
                   sent, recv, checked, ret, pre, served, removedAt, hist>>

\* the directory's administrator changes the groups of an entry
UpdateDirectory ==
    /\ \E dn \in Mutable, ms \in MemberLists :
          /\ membership[dn] # ms
          /\ membership' = [membership EXCEPT ![dn] = ms]
    /\ UNCHANGED <<now, provider, session, pc, op, ctx, url, profile, inflight, sent,
                   recv, checked, ret, pre, served, removedAt, hist>>

----------------------------------------------------------------------------

Next ==
    \/ \E p \in Running, name \in ProfileOps : CallGetProfile(p, name)
    \/ \E p \in Running : IntrospectResponse(p)
    \/ \E p \in Running : CallValidateSessionState(p)
    \/ \E p \in Running : ValidateResponse(p)
    \/ \E p \in Running : CallValidateGroup(p)
    \/ \E p \in Running, absent \in BOOLEAN : CallRefreshSessionIfNeeded(p, absent)
    \/ \E p \in Running : EntryResponse(p)
    \/ \E p \in Running : DirectoryServe(p)
    \/ \E p \in Running : GroupsResponse(p)
    \/ \E p \in Running : Cancel(p)
    \/ Tick
    \/ UpdateDirectory

Spec == Init /\ [][Next]_vars

----------------------------------------------------------------------------
(* Revocation: a user who is in an allow-listed group is taken out of every   *)
(* group once, while the gateway keeps refreshing the session.               *)

RevokeInit ==
    \E g \in {<<"ops">>, <<"admin", "ops">>}, e \in {NilTime, At(0)} :
        InitWith(g, [dn \in DNs |-> <<"eng", "ops">>],
                 [p \in Procs |->
                     IF p \in Running
                     THEN [AccessToken |-> "at", RefreshToken |-> "rt",
                           Email |-> "a@criteo", User |-> "u1", ExpiresOn |-> e]
                     ELSE ParkedSession])

\* the administrator takes the user out of every allow-listed group
RemoveUser ==
    /\ removedAt = NilTime
    /\ removedAt' = At(now)
    /\ \E ms \in MemberLists :
          /\ ~MatchGroups(ms, provider.groups)
          /\ membership' = [membership EXCEPT !["u1"] = ms]
    /\ UNCHANGED <<now, provider, session, pc, op, ctx, url, profile, inflight, sent,
                   recv, checked, ret, pre, served, hist>>

RevokeNext ==
    \/ \E p \in Running, absent \in BOOLEAN : CallRefreshSessionIfNeeded(p, absent)
    \/ \E p \in Running : EntryResponse(p)
    \/ \E p \in Running : DirectoryServe(p)
    \/ \E p \in Running : GroupsResponse(p)
    \/ Tick
    \/ RemoveUser

RevokeSpec == RevokeInit /\ [][RevokeNext]_vars

----------------------------------------------------------------------------
(* Concurrency: two requests, each on its own session, run their operations   *)
(* interleaved over the one provider.                                        *)

ConcInit ==
    \E g \in {<<"ops">>, <<"admin", "ops">>}, e \in Emails :
        InitWith(g, [dn \in DNs |-> <<"eng", "ops">>],
                 [p \in Procs |->
                     [AccessToken |-> "at", RefreshToken |-> "rt", Email |-> e,
                      User |-> IF p \in Running THEN "u1" ELSE "u2",
                      ExpiresOn |-> NilTime]])

ConcNext ==
    \/ \E p \in Procs : CallGetProfile(p, "GetProfile")
    \/ \E p \in Procs : IntrospectResponse(p)
    \/ \E p \in Procs : CallValidateSessionState(p)
    \/ \E p \in Procs : ValidateResponse(p)
    \/ \E p \in Procs : CallValidateGroup(p)
    \/ \E p \in Procs : CallRefreshSessionIfNeeded(p, FALSE)
    \/ \E p \in Procs : EntryResponse(p)
    \/ \E p \in Procs : DirectoryServe(p)
    \/ \E p \in Procs : GroupsResponse(p)

ConcSpec == ConcInit /\ [][ConcNext]_vars

TypeOK ==
    /\ now \in 0..MaxTime
    /\ \A p \in Procs : pc[p] \in {"idle", "introspect", "validate", "entry", "groups"}

----------------------------------------------------------------------------
(* Properties *)

\* p is not inside an operation, and the last one it ran was name
Returned(p, name) == pc[p] = "idle" /\ op[p].name = name

\* p ran one of the GetProfile family to its end
ProfileReturned(p) == pc[p] = "idle" /\ op[p].name \in ProfileOps

\* the step in which the group check of p's RefreshSessionIfNeeded comes back
RefreshChecks(p) ==
    /\ op[p].name = "RefreshSessionIfNeeded"
    /\ pc[p] \in {"entry", "groups"}
    /\ pc'[p] = "idle"

\* everything a call of p writes
Local(p) == <<session[p], pc[p], op[p], ctx[p], url[p], profile[p], inflight[p],
              sent[p], recv[p], checked[p], ret[p], pre[p], served[p], hist[p]>>

\* the step in which p calls RefreshSessionIfNeeded
RefreshCalled(p) ==
    /\ pc[p] = "idle"
    /\ Local(p)' # Local(p)
    /\ op'[p].name = "RefreshSessionIfNeeded"

\* the requests of p to endpoint
SentTo(p, endpoint) == {i \in DOMAIN sent[p] : sent[p][i].endpoint = endpoint}

\* C1: when RefreshSessionIfNeeded ran the group check (refresh token
\* non-empty, expiry not in the future) and the check said the user is not in
\* the allow-list, the call returns the "no longer in the group(s)" error with
\* refreshed = false, and the expiry is what it was before the call.
C1_RefreshEnforcement ==
    \A p \in Procs :
        (Returned(p, "RefreshSessionIfNeeded") /\ checked[p] = "out")
            => /\ ret[p].err = ErrNoLongerInGroup
               /\ ret[p].refreshed = FALSE
               /\ session[p].ExpiresOn = pre[p].ExpiresOn

C1_Witness ==
    \E p \in Procs :
        /\ Returned(p, "RefreshSessionIfNeeded")
        /\ checked[p] = "out"
        /\ pre[p].RefreshToken # ""
        /\ pre[p].ExpiresOn # NilTime
        /\ pre[p].ExpiresOn.at < now
        /\ Len(recv[p]) = 2
        /\ recv[p][2].err = Nil

\* C2: a call of RefreshSessionIfNeeded with an absent session, an empty
\* refresh token, or an expiry that is set and strictly in the future returns
\* at once (not refreshed, no error), issues no request and leaves the session
\* as it was.
C2_RefreshSkip ==
    [][\A p \in Procs :
          (/\ RefreshCalled(p)
           /\ \/ op'[p].absent
              \/ session[p].RefreshToken = ""
              \/ (session[p].ExpiresOn.set /\ session[p].ExpiresOn.at > now))
            => /\ pc'[p] = "idle"
               /\ ret'[p] = Result(Nil, FALSE, FALSE, "")
               /\ sent'[p] = <<>>
               /\ inflight'[p] = {}
               /\ session'[p] = session[p]]_vars

C2_Witness ==
    \E p \in Procs :
        /\ Returned(p, "RefreshSessionIfNeeded")
        /\ ~op[p].absent
        /\ pre[p].RefreshToken # ""
        /\ pre[p].ExpiresOn.set
        /\ pre[p].ExpiresOn.at > now
        /\ sent[p] = <<>>
        /\ ret[p] = Result(Nil, FALSE, FALSE, "")
        /\ session[p] = pre[p]

C4_FailClosed ==
    \A p \in Procs :
        (/\ pc[p] = "idle"
         /\ op[p].name \in {"ValidateGroup", "RefreshSessionIfNeeded"}
         /\ \E i \in DOMAIN recv[p] : recv[p][i].err # Nil)
            => /\ checked[p] = "out"
               /\ ret[p].bool = FALSE
               /\ ret[p].err \notin RemoteErrors \cup {ErrCanceled}
               /\ op[p].name = "ValidateGroup" => ret[p].err = Nil

C4_Witness ==
    \E p \in Procs :
        /\ Returned(p, "ValidateGroup")
        /\ Len(recv[p]) = 2
        /\ recv[p][2].err = ErrDecode
        /\ MatchGroups(membership[pre[p].User], provider.groups)
        /\ ret[p].bool = FALSE

\* C5: when both round-trips succeed, userInGroup returns true exactly when
\* some name of the fetched groups equals some name of the allow-list.
C5_AllowListMatching ==
    \A p \in Procs :
        (/\ pc[p] = "idle"
         /\ op[p].name \in {"ValidateGroup", "RefreshSessionIfNeeded"}
         /\ Len(recv[p]) = 2
         /\ recv[p][1].err = Nil
         /\ recv[p][2].err = Nil)
            => (checked[p] = "in") =
                   (Range(recv[p][2].body.Groups) \cap Range(provider.groups) # {})

C5_Witness ==
    \E p \in Procs :
        /\ Returned(p, "ValidateGroup")
        /\ Len(recv[p]) = 2
        /\ recv[p][2].err = Nil
        /\ recv[p][2].body.Groups = <<"eng", "ops">>
        /\ provider.groups = <<"admin", "ops">>
        /\ ret[p].bool = TRUE

\* C6: GetProfile on a session whose email and user key are both set returns
\* success, issues no request and leaves the session as it was, whatever the
\* access token.
C6_ProfileIdempotence ==
    \A p \in Procs :
        (ProfileReturned(p) /\ pre[p].Email # "" /\ pre[p].User # "")
            => /\ ret[p].err = Nil
               /\ sent[p] = <<>>
               /\ session[p] = pre[p]

C6_Witness ==
    \E p \in Procs :
        /\ Returned(p, "GetProfile")
        /\ pre[p].Email # ""
        /\ pre[p].User # ""
        /\ pre[p].AccessToken = ""
        /\ ret[p].err = Nil

\* C7: GetProfile on a session that is not fully resolved and has an empty
\* access token fails with "missing access token" and issues no request.
C7_MissingTokenGuard ==
    \A p \in Procs :
        (/\ ProfileReturned(p)
         /\ (pre[p].Email = "" \/ pre[p].User = "")
         /\ pre[p].AccessToken = "")
            => /\ ret[p].err = ErrMissingToken
               /\ sent[p] = <<>>

C7_Witness ==
    \E p \in Procs :
        /\ Returned(p, "GetProfile")
        /\ pre[p].Email # ""
        /\ pre[p].User = ""
        /\ pre[p].AccessToken = ""
        /\ ret[p].err = ErrMissingToken

\* C8: when the introspection call of GetProfile succeeds with an empty
\* email, GetProfile returns "can't find email"; and GetProfile returns
\* success only with a non-empty email in the session.
C8_ProfileIncomplete ==
    \A p \in Procs :
        ProfileReturned(p)
            => /\ (/\ Len(recv[p]) = 1
                   /\ recv[p][1].err = Nil
                   /\ recv[p][1].body.Email = "") => ret[p].err = ErrNoEmail
               /\ ret[p].err = Nil => session[p].Email # ""

C8_Witness ==
    \E p \in Procs :
        /\ Returned(p, "GetProfile")
        /\ Len(recv[p]) = 1
        /\ recv[p][1].err = Nil
        /\ recv[p][1].body.Email = ""
        /\ recv[p][1].body.User # ""
        /\ ret[p].err = ErrNoEmail

\* C9: an operation that takes a context and whose context was cancelled
\* while one of its remote calls was pending ends with the cancellation
\* error.
C9_Cancellation ==
    \A p \in Procs :
        (/\ pc[p] = "idle"
         /\ op[p].name \in ProfileOps \cup {"RefreshSessionIfNeeded"}
         /\ ctx[p] = "cancelled")
            => ret[p].err = ErrCanceled

\* C10: an operation issues at most one request to each endpoint, and a
\* failed response ends it: the failed request is the last one issued and
\* the operation has returned.
C10_NoRetries ==
    \A p \in Procs :
        /\ \A e \in {"introspect", "validate", "entry", "groups"} :
              Cardinality(SentTo(p, e)) <= 1
        /\ \A i \in DOMAIN recv[p] :
              recv[p][i].err # Nil => (pc[p] = "idle" /\ i = Len(sent[p]))

C10_Witness ==
    \E p \in Procs :
        /\ Returned(p, "GetProfile")
        /\ Len(sent[p]) = 1
        /\ recv[p][1].err = ErrTransport
        /\ ret[p].err = ErrTransport

\* C12: a call of RefreshSessionIfNeeded starts the group check exactly when
\* the session is present, its refresh token is non-empty and its expiry is
\* unset or not after the current time (equal included); and when the check
\* comes back the call returns either the "no longer in the group(s)" error
\* or a session whose expiry was moved past the current time.
C12_RefreshTrigger ==
    [][\A p \in Procs :
          /\ RefreshCalled(p)
               => ((pc'[p] = "entry" /\ Len(sent'[p]) = 1) <=>
                      (/\ ~op'[p].absent
                       /\ session[p].RefreshToken # ""
                       /\ (~session[p].ExpiresOn.set \/ session[p].ExpiresOn.at <= now)))
          /\ RefreshChecks(p)
               => \/ /\ ret'[p].err = ErrNoLongerInGroup
                     /\ session'[p] = session[p]
                  \/ /\ ret'[p].err = Nil
                     /\ session'[p].ExpiresOn.set
                     /\ session'[p].ExpiresOn.at > now
                     /\ session'[p].ExpiresOn # session[p].ExpiresOn]_vars

C12_Witness ==
    \E p \in Procs :
        /\ op[p].name = "RefreshSessionIfNeeded"
        /\ pc[p] = "entry"
        /\ now > 0
        /\ pre[p].ExpiresOn = At(now)

\* C13: a groups request is the second request of its operation, issued
\* after the entry request was answered without error, and no two requests
\* of one operation are in flight together.
C13_TwoStepOrdering ==
    \A p \in Procs :
        /\ \A i \in DOMAIN sent[p] :
              sent[p][i].endpoint = "groups"
                 => /\ i = 2
                    /\ sent[p][1].endpoint = "entry"
                    /\ Len(recv[p]) >= 1
                    /\ recv[p][1].err = Nil
        /\ Cardinality(inflight[p]) <= 1

C13_Witness ==
    \E p \in Procs :
        /\ pc[p] = "groups"
        /\ Len(recv[p]) = 1
        /\ recv[p][1].err = Nil
        /\ \A r \in inflight[p] : r.endpoint = "groups"
        /\ inflight[p] # {}

\* C14: the groups request addresses the entry whose dn the entry response
\* carried.
C14_GroupLookupKey ==
    \A p \in Procs :
        \A i \in DOMAIN sent[p] :
            sent[p][i].endpoint = "groups"
               => PathKey(sent[p][i].path) = recv[p][1].body.Dn

\* C15 as claimed: whenever GetProfile returns an error, the email and the
\* user key of the session are what they were before the call.
C15_ErrorLeavesIdentity ==
    \A p \in Procs :
        (ProfileReturned(p) /\ ret[p].err # Nil)
            => /\ session[p].Email = pre[p].Email
               /\ session[p].User = pre[p].User

\* C15 amended: GetProfile returns the error of a failed introspection call
\* and the "missing access token" error with the email and the user key
\* untouched; when it returns "can't find email" the session holds what the
\* response carried: an empty email and the response's user key.
C15_IdentityWrittenOnResponse ==
    \A p \in Procs :
        ProfileReturned(p)
            => /\ ret[p].err \in {ErrMissingToken, ErrCanceled} \cup RemoteErrors
                    => /\ session[p].Email = pre[p].Email
                       /\ session[p].User = pre[p].User
               /\ \A i \in DOMAIN recv[p] : recv[p][i].err # Nil => ret[p].err = recv[p][i].err
               /\ ret[p].err = ErrNoEmail
                    => /\ session[p].Email = ""
                       /\ session[p].User = recv[p][1].body.User
               /\ ret[p].err = Nil
                    => \/ session[p] = pre[p]
                       \/ /\ session[p].Email = recv[p][1].body.Email
                          /\ session[p].User = recv[p][1].body.User

C15_Witness ==
    \E p \in Procs :
        /\ Returned(p, "GetProfile")
        /\ ret[p].err = ErrNoEmail
        /\ pre[p].Email # ""
        /\ session[p].Email = ""
        /\ pre[p].User = ""
        /\ session[p].User # ""

\* C16: when a directory round-trip fails during the group check of
\* RefreshSessionIfNeeded, the call returns what it returns for a user who
\* left the groups: the "no longer in the group(s)" error, not refreshed, and
\* the session, its expiry included, is as before the call.
C16_OutageEndsSession ==
    \A p \in Procs :
        (/\ Returned(p, "RefreshSessionIfNeeded")
         /\ \E i \in DOMAIN recv[p] : recv[p][i].err # Nil)
            => /\ ret[p] = Result(ErrNoLongerInGroup, FALSE, FALSE, "")
               /\ session[p].ExpiresOn = pre[p].ExpiresOn
               /\ session[p] = pre[p]

C16_Witness ==
    \E p \in Procs :
        /\ Returned(p, "RefreshSessionIfNeeded")
        /\ Len(recv[p]) = 2
        /\ recv[p][2].err = ErrTransport
        /\ pre[p].ExpiresOn.set
        /\ MatchGroups(membership[pre[p].User], provider.groups)
        /\ ret[p].err = ErrNoLongerInGroup

\* C17: the clock never goes back; a heartbeat sets an expiry after the
\* current time, at most one second after it, and after the expiry it
\* replaces; so an expiry that is set stays set and never decreases.
C17_ExpiryMonotone ==
    [][/\ now' >= now
       /\ \A p \in Procs :
          /\ session[p].ExpiresOn.set
               => /\ session'[p].ExpiresOn.set
                  /\ session'[p].ExpiresOn.at >= session[p].ExpiresOn.at
          /\ (RefreshChecks(p) /\ checked'[p] = "in")
               => /\ session'[p].ExpiresOn.set
                  /\ session'[p].ExpiresOn.at > now
                  /\ session'[p].ExpiresOn.at <= now + TicksPerSecond
                  /\ session[p].ExpiresOn.set
                       => session'[p].ExpiresOn.at > session[p].ExpiresOn.at]_vars

C17_Witness ==
    \E p \in Procs :
        /\ Returned(p, "RefreshSessionIfNeeded")
        /\ checked[p] = "in"
        /\ pre[p].ExpiresOn.set
        /\ pre[p].ExpiresOn.at > 0
        /\ session[p].ExpiresOn.at > pre[p].ExpiresOn.at

\* C19: no step changes the email, the user key, the access token or the
\* refresh token of a session whose email and user key are both set.
C19_ResolvedIdentityStable ==
    [][\A p \in Procs :
          (session[p].Email # "" /\ session[p].User # "")
            => /\ session'[p].Email = session[p].Email
               /\ session'[p].User = session[p].User
               /\ session'[p].AccessToken = session[p].AccessToken
               /\ session'[p].RefreshToken = session[p].RefreshToken]_vars

C19_Witness ==
    \E p \in Procs :
        /\ Returned(p, "RefreshSessionIfNeeded")
        /\ checked[p] = "in"
        /\ pre[p].Email # ""
        /\ pre[p].User # ""
        /\ pre[p].AccessToken # ""
        /\ session[p].ExpiresOn # pre[p].ExpiresOn

\* C18 as claimed: once a heartbeat has set the expiry, a call of
\* RefreshSessionIfNeeded with a refresh token, made a second or more after
\* the user was removed, starts the group check; and a group check of a call
\* made after the removal ends in the "no longer in the group(s)" error.
C18_RevokedWithinASecond ==
    [][\A p \in Procs :
          /\ (/\ RefreshCalled(p)
              /\ ~op'[p].absent
              /\ session[p].RefreshToken # ""
              /\ hist[p].beat
              /\ removedAt.set
              /\ now >= removedAt.at + TicksPerSecond)
               => pc'[p] = "entry"
          /\ (RefreshChecks(p) /\ hist[p].late)
               => /\ ret'[p].err = ErrNoLongerInGroup
                  /\ checked'[p] = "out"]_vars

\* C18 amended: after the removal, a call made with a refresh token at or
\* after the session's expiry starts the group check; a group check of a call
\* made after the removal ends in the "no longer in the group(s)" error and
\* leaves the session alone; a heartbeat sets the expiry at most one second
\* after the moment it is written.
C18_RevokedAtExpiry ==
    [][\A p \in Procs :
          /\ (/\ RefreshCalled(p)
              /\ ~op'[p].absent
              /\ session[p].RefreshToken # ""
              /\ removedAt.set
              /\ session[p].ExpiresOn.set
              /\ now >= session[p].ExpiresOn.at)
               => pc'[p] = "entry"
          /\ (RefreshChecks(p) /\ hist[p].late)
               => /\ ret'[p].err = ErrNoLongerInGroup
                  /\ checked'[p] = "out"
                  /\ session'[p] = session[p]
          /\ (RefreshChecks(p) /\ checked'[p] = "in")
               => session'[p].ExpiresOn.at <= now + TicksPerSecond]_vars

C18_Witness ==
    \E p \in Procs :
        /\ Returned(p, "RefreshSessionIfNeeded")
        /\ hist[p].late
        /\ hist[p].beat
        /\ removedAt.set
        /\ now >= removedAt.at + TicksPerSecond
        /\ Len(recv[p]) = 2
        /\ recv[p][2].err = Nil
        /\ ret[p].err = ErrNoLongerInGroup

\* the directory requests of p address the user key of p's own session
OwnPaths(p) ==
    \A i \in DOMAIN sent[p] :
        /\ sent[p][i].endpoint = "entry"
             => sent[p][i].path = <<"/user/", pre[p].User>>
        /\ sent[p][i].endpoint = "groups"
             => sent[p][i].path = <<"/user/", pre[p].User, "/groups">>

\* C11: no step of the interleaved operations changes the provider (its
\* URLs and its allow-list), and every directory request of a request is
\* addressed by the user key of that request's own session.
C11_ProviderReadOnly ==
    [][/\ provider' = provider
       /\ \A p \in Procs : OwnPaths(p)']_vars

C11_Witness ==
    /\ pc["r1"] = "groups"
    /\ pc["r2"] = "groups"
    /\ pre["r1"].User = "u1"
    /\ pre["r2"].User = "u2"
    /\ \A r \in inflight["r1"] : r.path = <<"/user/", "u1", "/groups">>
    /\ \A r \in inflight["r2"] : r.path = <<"/user/", "u2", "/groups">>
    /\ provider.IdentityURL = <<"/user/">>

====
